---- MODULE Spec2Model ----
(***************************************************************************)
(* EllipticPIR C++ wrapper (src_c/epir.hpp) over the EC-ElGamal core.      *)
(*                                                                         *)
(* The wrapper classes PrivateKey, PublicKey and DecryptionContext are     *)
(* modelled from epir.hpp.  The native core they call (epir_* functions    *)
(* declared in epir.h) is modelled from the specification, over a small    *)
(* cyclic group: a point is its discrete logarithm k (the point k*G) and   *)
(* its canonical encoding is a fixed-size byte string that is NOT          *)
(* monotone in k, so that byte order and message order differ.             *)
(***************************************************************************)
EXTENDS Integers, Sequences, FiniteSets, TLC

----------------------------------------------------------------------------
(* Bounds of the model. *)

GroupOrder == 13
MaxMmax == 4
MaxMessage == 5
MaxIndexCount == 4
MaxThreads == 2

----------------------------------------------------------------------------
(* Protocol constants (epir.h). *)

EPIR_POINT_SIZE == 2
EPIR_CIPHER_SIZE == 2 * EPIR_POINT_SIZE
MG_SCALAR_SIZE == 4
EPIR_MG_SIZE == EPIR_POINT_SIZE + MG_SCALAR_SIZE

Min(a, b) == IF a < b THEN a ELSE b

----------------------------------------------------------------------------
(* CurveEngine: group arithmetic and the canonical encoding. *)

Points == 0..(GroupOrder - 1)

sc_reduce(n) == n % GroupOrder

ge_add(p, q) == (p + q) % GroupOrder

ge_sub(p, q) == (p - q) % GroupOrder

ge_scalarmult(s, p) == (sc_reduce(s) * p) % GroupOrder

ge_scalarmult_base(s) == sc_reduce(s)

\* Canonical encoding of a point: two bytes, a permutation of the group.
ge_tobytes(p) ==
    LET e == (5 * p + 3) % GroupOrder
    IN  << e \div 4, e % 4 >>

\* Decoding; -1 when the bytes are not the encoding of a point.
ge_frombytes(b) ==
    IF \E p \in Points : ge_tobytes(p) = b
    THEN CHOOSE p \in Points : ge_tobytes(p) = b
    ELSE -1

\* memcmp(a, b, n): sign of the first differing byte, 0 if none.
memcmp(a, b, n) ==
    IF \A k \in 1..n : a[k] = b[k] THEN 0
    ELSE LET k == CHOOSE j \in 1..n :
                    /\ a[j] # b[j]
                    /\ \A l \in 1..(j - 1) : a[l] = b[l]
         IN  a[k] - b[k]

----------------------------------------------------------------------------
(* Keys and encryption (core). *)

epir_pubkey_from_privkey(privkey) == ge_tobytes(ge_scalarmult_base(privkey))

\* C1 = r*G, C2 = m*G + r*P.
epir_ecelgamal_encrypt(pubkey, message, r) ==
    LET P  == ge_frombytes(pubkey)
        c1 == ge_scalarmult_base(r)
        c2 == ge_add(ge_scalarmult_base(message), ge_scalarmult(r, P))
    IN  ge_tobytes(c1) \o ge_tobytes(c2)

\* C1 = r*G, C2 = (m + r*x)*G: one base multiplication for C2.
epir_ecelgamal_encrypt_fast(privkey, message, r) ==
    LET c1 == ge_scalarmult_base(r)
        c2 == ge_scalarmult_base(sc_reduce(message) + sc_reduce(r) * sc_reduce(privkey))
    IN  ge_tobytes(c1) \o ge_tobytes(c2)

----------------------------------------------------------------------------
(* Decryption table (core): entries [point, scalar]. *)

ZeroBytes(n) == [k \in 1..n |-> 0]

mG_zero == [point |-> ZeroBytes(EPIR_POINT_SIZE), scalar |-> 0]

\* i*G for i in [0, mmax) by cumulative addition of G, in index order.
RECURSIVE mG_point_at(_)
mG_point_at(i) == IF i = 0 THEN 0 ELSE ge_add(mG_point_at(i - 1), 1)

epir_mG_generate_no_sort(mmax) ==
    [i \in 1..mmax |-> [point |-> ge_tobytes(mG_point_at(i - 1)), scalar |-> i - 1]]

\* Binary search of the table by the point's bytes; -1 when absent.
RECURSIVE mG_search(_, _, _, _)
mG_search(mG, lo, hi, point) ==
    IF lo > hi THEN -1
    ELSE LET mid == (lo + hi) \div 2
             c   == memcmp(mG[mid].point, point, EPIR_POINT_SIZE)
         IN  IF c = 0 THEN mG[mid].scalar
             ELSE IF c < 0 THEN mG_search(mG, mid + 1, hi, point)
             ELSE mG_search(mG, lo, mid - 1, point)

\* M = C2 - x*C1, then the table lookup.
epir_ecelgamal_decrypt(privkey, cipher, mG, mmax) ==
    LET c1 == ge_frombytes(SubSeq(cipher, 1, EPIR_POINT_SIZE))
        c2 == ge_frombytes(SubSeq(cipher, EPIR_POINT_SIZE + 1, EPIR_CIPHER_SIZE))
    IN  IF c1 < 0 \/ c2 < 0 THEN -1
        ELSE mG_search(mG, 1, mmax, ge_tobytes(ge_sub(c2, ge_scalarmult(privkey, c1))))

----------------------------------------------------------------------------
(* Table artifact (core): mmax records, each the point bytes followed by   *)
(* the little-endian 32-bit scalar.                                        *)

uint32_tobytes(n) == [k \in 1..MG_SCALAR_SIZE |-> (n \div (256 ^ (k - 1))) % 256]

RECURSIVE uint32_frombytes(_)
uint32_frombytes(b) ==
    IF b = << >> THEN 0 ELSE Head(b) + 256 * uint32_frombytes(Tail(b))

mG_record(e) == e.point \o uint32_tobytes(e.scalar)

RECURSIVE mG_file(_)
mG_file(mG) == IF mG = << >> THEN << >> ELSE mG_record(Head(mG)) \o mG_file(Tail(mG))

mG_parse(rec) ==
    [point  |-> SubSeq(rec, 1, EPIR_POINT_SIZE),
     scalar |-> uint32_frombytes(SubSeq(rec, EPIR_POINT_SIZE + 1, EPIR_MG_SIZE))]

\* fread of at most mmax whole records into mG; the rest of mG is untouched.
epir_mG_load(mG, mmax, file) ==
    LET elemsRead == Min(Len(file) \div EPIR_MG_SIZE, mmax)
    IN  [elemsRead |-> elemsRead,
         mG |-> [i \in 1..Len(mG) |->
                    IF i <= elemsRead
                    THEN mG_parse(SubSeq(file, (i - 1) * EPIR_MG_SIZE + 1, i * EPIR_MG_SIZE))
                    ELSE mG[i]]]

----------------------------------------------------------------------------
(* Selectors (core). *)

RECURSIVE epir_selector_ciphers_count(_)
epir_selector_ciphers_count(indexCounts) ==
    IF indexCounts = << >> THEN 0
    ELSE Head(indexCounts) + epir_selector_ciphers_count(Tail(indexCounts))

RECURSIVE epir_selector_elements_count(_)
epir_selector_elements_count(indexCounts) ==
    IF indexCounts = << >> THEN 1
    ELSE Head(indexCounts) * epir_selector_elements_count(Tail(indexCounts))

\* Randomness of the k-th cipher (0-based) of a selector drawn from seed r.
selector_randomness(r, k) == sc_reduce(r + k)

\* The one-hot choice of every cipher of the selector, in dimension order,
\* most significant digit first: rows = idx / prod, idx -= rows * prod.
RECURSIVE selector_choices(_, _)
selector_choices(indexCounts, idx) ==
    IF indexCounts = << >> THEN << >>
    ELSE LET prod == epir_selector_elements_count(Tail(indexCounts))
             rows == idx \div prod
         IN  [c \in 1..Head(indexCounts) |-> IF c - 1 = rows THEN 1 ELSE 0]
                 \o selector_choices(Tail(indexCounts), idx - rows * prod)

RECURSIVE selector_encrypt_all(_, _, _, _, _)
selector_encrypt_all(fast, key, choices, r, k) ==
    IF choices = << >> THEN << >>
    ELSE (IF fast
          THEN epir_ecelgamal_encrypt_fast(key, Head(choices), selector_randomness(r, k))
          ELSE epir_ecelgamal_encrypt(key, Head(choices), selector_randomness(r, k)))
         \o selector_encrypt_all(fast, key, Tail(choices), r, k + 1)

\* Validates idx, then writes ciphersCount ciphers; on an invalid idx
\* nothing is written.
epir_selector_create_(fast, key, indexCounts, idx, r) ==
    IF idx >= epir_selector_elements_count(indexCounts)
    THEN [ok |-> FALSE, written |-> << >>]
    ELSE [ok |-> TRUE,
          written |-> selector_encrypt_all(fast, key, selector_choices(indexCounts, idx), r, 0)]

epir_selector_create(pubkey, indexCounts, idx, r) ==
    epir_selector_create_(FALSE, pubkey, indexCounts, idx, r)

epir_selector_create_fast(privkey, indexCounts, idx, r) ==
    epir_selector_create_(TRUE, privkey, indexCounts, idx, r)

----------------------------------------------------------------------------
(* Reply decoding (core): dimension phases, each decrypting mid_count      *)
(* cipher records in place into packing bytes per record.                  *)

\* One record of a phase: decrypt record i, write its packing bytes at
\* offset i * packing.
reply_record(buf, i, privkey, packing, mG, mmax) ==
    LET decrypted == epir_ecelgamal_decrypt(
            privkey, SubSeq(buf, i * EPIR_CIPHER_SIZE + 1, (i + 1) * EPIR_CIPHER_SIZE), mG, mmax)
    IN  IF decrypted < 0 THEN [ok |-> FALSE, buf |-> buf]
        ELSE [ok |-> TRUE,
              buf |-> [k \in 1..Len(buf) |->
                          IF k - 1 >= i * packing /\ k - 1 < (i + 1) * packing
                          THEN (decrypted \div (256 ^ (k - 1 - i * packing))) % 256
                          ELSE buf[k]]]

\* Number of records of the next phase.
reply_next_count(mid_count, packing) == (mid_count * packing) \div EPIR_CIPHER_SIZE

RECURSIVE reply_phase(_, _, _, _, _, _, _, _)
reply_phase(buf, i, mid_count, success, privkey, packing, mG, mmax) ==
    IF i >= mid_count THEN [success |-> success, buf |-> buf]
    ELSE LET rec == reply_record(buf, i, privkey, packing, mG, mmax)
         IN  reply_phase(rec.buf, i + 1, mid_count, success /\ rec.ok,
                         privkey, packing, mG, mmax)

RECURSIVE reply_phases(_, _, _, _, _, _, _, _)
reply_phases(buf, mid_count, phase, privkey, dimension, packing, mG, mmax) ==
    LET ph == reply_phase(buf, 0, mid_count, TRUE, privkey, packing, mG, mmax)
    IN  IF ~ph.success THEN [count |-> -1, buf |-> ph.buf]
        ELSE IF phase = dimension - 1 THEN [count |-> mid_count * packing, buf |-> ph.buf]
        ELSE reply_phases(ph.buf, reply_next_count(mid_count, packing), phase + 1,
                          privkey, dimension, packing, mG, mmax)

epir_reply_decrypt(reply, reply_size, privkey, dimension, packing, mG, mmax) ==
    reply_phases(reply, reply_size \div EPIR_CIPHER_SIZE, 0,
                 privkey, dimension, packing, mG, mmax)

----------------------------------------------------------------------------
(* Outcomes of a wrapper call. *)

Returned(bytes) == [kind |-> "return", value |-> bytes, code |-> 0, what |-> ""]

ReturnedInt(n) == [kind |-> "return", value |-> << >>, code |-> n, what |-> ""]

Thrown(what) == [kind |-> "throw", value |-> << >>, code |-> 0, what |-> what]

Crashed == [kind |-> "crash", value |-> << >>, code |-> 0, what |-> ""]

NoOutcome == [kind |-> "none", value |-> << >>, code |-> 0, what |-> ""]

----------------------------------------------------------------------------
(* epir.hpp: Encryptor, PrivateKey, PublicKey. *)

Encryptor_ciphersCount(indexCounts) == epir_selector_ciphers_count(indexCounts)

Encryptor_elementsCount(indexCounts) == epir_selector_elements_count(indexCounts)

PrivateKey_encrypt(privkey, message, r) ==
    epir_ecelgamal_encrypt_fast(privkey, message, r)

PublicKey_fromPrivateKey(privkey) == epir_pubkey_from_privkey(privkey)

PublicKey_encrypt(pubkey, message, r) ==
    epir_ecelgamal_encrypt(pubkey, message, r)

\* The selector vector is constructed with ciphersCount BYTES (value
\* initialised to 0) and the core writes its ciphers at selector.data().
\* Writing more than the vector holds is a heap overflow: the call either
\* crashes or returns the vector, which holds the first n bytes written.
selector_vector(n, written) ==
    IF Len(written) <= n
    THEN {Returned([k \in 1..n |-> IF k <= Len(written) THEN written[k] ELSE 0])}
    ELSE {Returned(SubSeq(written, 1, n)), Crashed}

PrivateKey_createSelector(privkey, indexCounts, idx, r) ==
    selector_vector(Encryptor_ciphersCount(indexCounts),
                    epir_selector_create_fast(privkey, indexCounts, idx, r).written)

PublicKey_createSelector(pubkey, indexCounts, idx, r) ==
    selector_vector(Encryptor_ciphersCount(indexCounts),
                    epir_selector_create(pubkey, indexCounts, idx, r).written)

----------------------------------------------------------------------------
(* epir.hpp: DecryptionContext. *)

NoContext == [status |-> "none", by |-> "none", mmax |-> 0, mG |-> << >>, what |-> ""]

\* The comparator of the std::sort call.
mG_less(a, b) == memcmp(a.point, b.point, EPIR_POINT_SIZE) < 0

RECURSIVE sort_insert(_, _)
sort_insert(e, s) ==
    IF s = << >> THEN << e >>
    ELSE IF mG_less(e, Head(s)) THEN << e >> \o s
    ELSE << Head(s) >> \o sort_insert(e, Tail(s))

RECURSIVE std_sort(_)
std_sort(s) == IF s = << >> THEN << >> ELSE sort_insert(Head(s), std_sort(Tail(s)))

\* A mutant: the constructor does not compare elemsRead with mmax.
DecryptionContext_load_unchecked(file, mmax) ==
    [status |-> "ready", by |-> "load", mmax |-> mmax,
     mG |-> epir_mG_load([i \in 1..mmax |-> mG_zero], mmax, file).mG, what |-> ""]

\* DecryptionContext(path, mmax): mG(mmax), load, throw unless mmax read.
DecryptionContext_load(file, mmax) ==
    LET l == epir_mG_load([i \in 1..mmax |-> mG_zero], mmax, file)
    IN  IF l.elemsRead # mmax
        THEN [status |-> "failed", by |-> "load", mmax |-> mmax, mG |-> << >>,
              what |-> "Failed to load mG.bin."]
        ELSE [status |-> "ready", by |-> "load", mmax |-> mmax, mG |-> l.mG, what |-> ""]

\* DecryptionContext(cb, cbData, mmax): generate without sorting, then sort.
DecryptionContext_generate(mmax) ==
    [status |-> "ready", by |-> "generate", mmax |-> mmax,
     mG |-> std_sort(epir_mG_generate_no_sort(mmax)), what |-> ""]

\* A mutant: the search is given one entry less than the table holds.
DecryptionContext_decryptCipher_short(c, privkey, cipher) ==
    ReturnedInt(epir_ecelgamal_decrypt(privkey, cipher, c.mG, c.mmax - 1))

DecryptionContext_decryptCipher(c, privkey, cipher) ==
    ReturnedInt(epir_ecelgamal_decrypt(privkey, cipher, c.mG, c.mmax))

\* A mutant: the negative count is not checked and buf is returned.
decryptReply_finish_unchecked(decryptedCount, buf) ==
    IF decryptedCount < 0 THEN Returned(buf)
    ELSE Returned(SubSeq(buf, 1, decryptedCount))

\* The end of decryptReply: throw on a negative count, else the first
\* decryptedCount bytes of buf.
decryptReply_finish(decryptedCount, buf) ==
    IF decryptedCount < 0 THEN Thrown("Failed to decrypt.")
    ELSE Returned(SubSeq(buf, 1, decryptedCount))

DecryptionContext_decryptReply(c, privkey, reply, dimension, packing) ==
    LET buf == [k \in 1..Len(reply) |-> reply[k]]
        d   == epir_reply_decrypt(buf, Len(reply), privkey, dimension, packing, c.mG, c.mmax)
    IN  decryptReply_finish(d.count, d.buf)

----------------------------------------------------------------------------
(* State. *)

VARIABLES
    privkey,    \* the client's private scalar
    pubkey,     \* PublicKey(privkey).bytes
    artifact,   \* bytes of the mG.bin file
    ctx,        \* the DecryptionContext: status, mmax, mG
    cipher,     \* the last encrypt call: encryptor, message, r, bytes
    selector,   \* the last createSelector call and its outcome
    reply,      \* the caller's reply buffer
    th          \* per calling thread: the call in progress and its outcome

vars == << privkey, pubkey, artifact, ctx, cipher, selector, reply, th >>

Threads == 1..MaxThreads

NoCipher == [by |-> "none", message |-> 0, r |-> 0, bytes |-> << >>]

NoSelector == [by |-> "none", indexCounts |-> << >>, idx |-> 0, r |-> 0, out |-> NoOutcome]

Idle ==
    [pc |-> "idle", op |-> "none", cipher |-> NoCipher, dimension |-> 0, packing |-> 0,
     buf |-> << >>, phase |-> 0, i |-> 0, mid_count |-> 0, success |-> TRUE,
     out |-> NoOutcome]

----------------------------------------------------------------------------
(* Inputs. *)

KeyDomain == {3, GroupOrder - 1}

RandDomain == {1, GroupOrder - 3}

Messages == 0..MaxMessage

Mmaxes == 1..MaxMmax

IndexCountsDomain ==
    {<< >>} \cup {<< a >> : a \in 1..MaxIndexCount}
            \cup {<< a, b >> : a \in 1..MaxIndexCount, b \in 1..MaxIndexCount}

IdxDomain(indexCounts) == 0..(Encryptor_elementsCount(indexCounts) + 1)

Dimensions == 1..2

Packings == 1..2

\* Files: the sorted table of n records, the unsorted generator output,
\* a sorted table with its first two records swapped, and a sorted table
\* cut one byte short.
Artifacts ==
    {mG_file(DecryptionContext_generate(n).mG) : n \in 0..(MaxMmax + 1)}
        \cup {mG_file(epir_mG_generate_no_sort(n)) : n \in 2..MaxMmax}
        \cup {LET f == mG_file(DecryptionContext_generate(n).mG)
              IN  SubSeq(f, EPIR_MG_SIZE + 1, 2 * EPIR_MG_SIZE) \o SubSeq(f, 1, EPIR_MG_SIZE)
                      \o SubSeq(f, 2 * EPIR_MG_SIZE + 1, Len(f)) : n \in 2..MaxMmax}
        \cup {LET f == mG_file(DecryptionContext_generate(n).mG)
              IN  SubSeq(f, 1, Len(f) - 1) : n \in 1..MaxMmax}

CryptArtifacts ==
    {mG_file(DecryptionContext_generate(MaxMmax).mG),
     mG_file(DecryptionContext_generate(MaxMmax + 1).mG),
     mG_file(epir_mG_generate_no_sort(MaxMmax))}

RECURSIVE encrypt_each(_, _, _)
encrypt_each(pk, messages, r) ==
    IF messages = << >> THEN << >>
    ELSE PublicKey_encrypt(pk, Head(messages), r) \o encrypt_each(pk, Tail(messages), r + 1)

\* Replies of the server: ciphers of in-range messages, a reply holding an
\* out-of-range message, a two-dimensional reply (the ciphers of the bytes
\* of a cipher), and a reply with a byte that encodes no point.
Replies(pk) ==
    {encrypt_each(pk, << 1, MaxMmax - 1 >>, 2),
     encrypt_each(pk, << 2, MaxMmax + 1 >>, 4),
     encrypt_each(pk, PublicKey_encrypt(pk, 2, 3), 1),
     << 255 >> \o Tail(encrypt_each(pk, << 0, 1 >>, 6))}

----------------------------------------------------------------------------
(* Operations.  A run holds one encrypt call and one createSelector call,  *)
(* and one decrypt call per thread.                                         *)

Generate(mmax) ==
    /\ ctx.status = "none"
    /\ ctx' = DecryptionContext_generate(mmax)
    /\ UNCHANGED << privkey, pubkey, artifact, cipher, selector, reply, th >>

Load(mmax) ==
    /\ ctx.status = "none"
    /\ ctx' = DecryptionContext_load(artifact, mmax)
    /\ UNCHANGED << privkey, pubkey, artifact, cipher, selector, reply, th >>

EncryptPublic(message, r) ==
    /\ cipher.by = "none"
    /\ cipher' = [by |-> "PublicKey", message |-> message, r |-> r,
                  bytes |-> PublicKey_encrypt(pubkey, message, r)]
    /\ UNCHANGED << privkey, pubkey, artifact, ctx, selector, reply, th >>

EncryptPrivate(message, r) ==
    /\ cipher.by = "none"
    /\ cipher' = [by |-> "PrivateKey", message |-> message, r |-> r,
                  bytes |-> PrivateKey_encrypt(privkey, message, r)]
    /\ UNCHANGED << privkey, pubkey, artifact, ctx, selector, reply, th >>

CreateSelectorPrivate(indexCounts, idx, r) ==
    /\ selector.by = "none"
    /\ \E o \in PrivateKey_createSelector(privkey, indexCounts, idx, r) :
          selector' = [by |-> "PrivateKey", indexCounts |-> indexCounts, idx |-> idx,
                       r |-> r, out |-> o]
    /\ UNCHANGED << privkey, pubkey, artifact, ctx, cipher, reply, th >>

CreateSelectorPublic(indexCounts, idx, r) ==
    /\ selector.by = "none"
    /\ \E o \in PublicKey_createSelector(pubkey, indexCounts, idx, r) :
          selector' = [by |-> "PublicKey", indexCounts |-> indexCounts, idx |-> idx,
                       r |-> r, out |-> o]
    /\ UNCHANGED << privkey, pubkey, artifact, ctx, cipher, reply, th >>

\* A mutant: the lookup moves the entry it found to the front of the table.
DecryptCipher_moveToFront(t) ==
    /\ th[t].pc = "idle"
    /\ ctx.status = "ready"
    /\ cipher.by # "none"
    /\ th' = [th EXCEPT ![t] =
                 [Idle EXCEPT !.pc = "done", !.op = "decryptCipher", !.cipher = cipher,
                              !.out = DecryptionContext_decryptCipher(ctx, privkey, cipher.bytes)]]
    /\ ctx' = [ctx EXCEPT !.mG =
                 LET m == DecryptionContext_decryptCipher(ctx, privkey, cipher.bytes).code
                     hit == {k \in 1..Len(ctx.mG) : ctx.mG[k].scalar = m}
                 IN  IF hit = {} THEN ctx.mG
                     ELSE LET k == CHOOSE j \in hit : TRUE
                          IN  << ctx.mG[k] >> \o SubSeq(ctx.mG, 1, k - 1)
                                  \o SubSeq(ctx.mG, k + 1, Len(ctx.mG))]
    /\ UNCHANGED << privkey, pubkey, artifact, cipher, selector, reply >>

\* decryptCipher(privkey, cipher) on the shared context.
DecryptCipher(t) ==
    /\ th[t].pc = "idle"
    /\ ctx.status = "ready"
    /\ cipher.by # "none"
    /\ th' = [th EXCEPT ![t] =
                 [Idle EXCEPT !.pc = "done", !.op = "decryptCipher", !.cipher = cipher,
                              !.out = DecryptionContext_decryptCipher(ctx, privkey, cipher.bytes)]]
    /\ UNCHANGED << privkey, pubkey, artifact, ctx, cipher, selector, reply >>

\* decryptReply entry: the private copy buf of reply, and the core's start.
CallDecryptReply(t, dimension, packing) ==
    /\ th[t].pc = "idle"
    /\ ctx.status = "ready"
    /\ th' = [th EXCEPT ![t] =
                 [Idle EXCEPT !.pc = "reply", !.op = "decryptReply",
                              !.dimension = dimension, !.packing = packing,
                              !.buf = [k \in 1..Len(reply) |-> reply[k]],
                              !.mid_count = Len(reply) \div EPIR_CIPHER_SIZE]]
    /\ UNCHANGED << privkey, pubkey, artifact, ctx, cipher, selector, reply >>

\* The frame after one step of the decode: one record of the current
\* phase, or the end of a phase (failure, next phase, or the final count).
reply_step(f, key, c) ==
    IF f.i < f.mid_count
    THEN LET rec == reply_record(f.buf, f.i, key, f.packing, c.mG, c.mmax)
         IN  [f EXCEPT !.buf = rec.buf, !.i = f.i + 1, !.success = f.success /\ rec.ok]
    ELSE IF ~f.success
    THEN [f EXCEPT !.pc = "done", !.out = decryptReply_finish(-1, f.buf)]
    ELSE IF f.phase = f.dimension - 1
    THEN [f EXCEPT !.pc = "done",
                   !.out = decryptReply_finish(f.mid_count * f.packing, f.buf)]
    ELSE [f EXCEPT !.phase = f.phase + 1, !.i = 0,
                   !.mid_count = reply_next_count(f.mid_count, f.packing)]

\* A mutant: the decode runs on the caller's buffer instead of a copy.
DecryptReplyStep_inPlace(t) ==
    /\ th[t].pc = "reply"
    /\ th' = [th EXCEPT ![t] = reply_step(th[t], privkey, ctx)]
    /\ reply' = reply_step(th[t], privkey, ctx).buf
    /\ UNCHANGED << privkey, pubkey, artifact, ctx, cipher, selector >>

DecryptReplyStep(t) ==
    /\ th[t].pc = "reply"
    /\ th' = [th EXCEPT ![t] = reply_step(th[t], privkey, ctx)]
    /\ UNCHANGED << privkey, pubkey, artifact, ctx, cipher, selector, reply >>

----------------------------------------------------------------------------
(* Specifications. *)

InitKeys ==
    /\ privkey \in KeyDomain
    /\ pubkey = PublicKey_fromPrivateKey(privkey)

\* Table construction.
TableInit ==
    /\ InitKeys
    /\ artifact \in Artifacts
    /\ ctx = NoContext
    /\ cipher = NoCipher
    /\ selector = NoSelector
    /\ reply = << >>
    /\ th = [t \in Threads |-> Idle]

TableNext ==
    \/ \E mmax \in Mmaxes : Generate(mmax)
    \/ \E mmax \in Mmaxes : Load(mmax)

SpecTable == TableInit /\ [][TableNext]_vars

\* Encryption and decryption by one caller.
CryptInit ==
    /\ InitKeys
    /\ artifact \in CryptArtifacts
    /\ ctx = NoContext
    /\ cipher = NoCipher
    /\ selector = NoSelector
    /\ reply = << >>
    /\ th = [t \in Threads |-> Idle]

CryptNext ==
    \/ \E mmax \in Mmaxes : Generate(mmax)
    \/ \E mmax \in Mmaxes : Load(mmax)
    \/ \E m \in Messages, r \in RandDomain : EncryptPublic(m, r)
    \/ \E m \in Messages, r \in RandDomain : EncryptPrivate(m, r)
    \/ DecryptCipher(1)

SpecCrypt == CryptInit /\ [][CryptNext]_vars

\* Selector construction.
SelectorInit ==
    /\ InitKeys
    /\ artifact = << >>
    /\ ctx = NoContext
    /\ cipher = NoCipher
    /\ selector = NoSelector
    /\ reply = << >>
    /\ th = [t \in Threads |-> Idle]

SelectorNext ==
    \/ \E ic \in IndexCountsDomain, r \in RandDomain :
          \E idx \in IdxDomain(ic) : CreateSelectorPrivate(ic, idx, r)
    \/ \E ic \in IndexCountsDomain, r \in RandDomain :
          \E idx \in IdxDomain(ic) : CreateSelectorPublic(ic, idx, r)

SpecSelector == SelectorInit /\ [][SelectorNext]_vars

\* Concurrent decryption on one constructed context.
ReplyInit ==
    /\ privkey = 3
    /\ pubkey = PublicKey_fromPrivateKey(privkey)
    /\ artifact = << >>
    /\ ctx = DecryptionContext_generate(MaxMmax)
    /\ cipher \in {[by |-> "PublicKey", message |-> m, r |-> 1,
                    bytes |-> PublicKey_encrypt(pubkey, m, 1)] : m \in {1, MaxMmax}}
    /\ selector = NoSelector
    /\ reply \in Replies(pubkey)
    /\ th = [t \in Threads |-> Idle]

ReplyNext ==
    \/ \E t \in Threads : DecryptCipher(t)
    \/ \E t \in Threads, d \in Dimensions, p \in Packings : CallDecryptReply(t, d, p)
    \/ \E t \in Threads : DecryptReplyStep(t)

SpecReply == ReplyInit /\ [][ReplyNext]_vars

----------------------------------------------------------------------------
(* Properties. *)

Done(t, op) == th[t].pc = "done" /\ th[t].op = op

\* The table holds exactly the points i*G, i in [0, mmax), each with its i.
TableExact(mG, mmax) ==
    /\ Len(mG) = mmax
    /\ {mG[k] : k \in 1..Len(mG)} =
           {[point |-> ge_tobytes(ge_scalarmult_base(i)), scalar |-> i] : i \in 0..(mmax - 1)}

\* Adjacent entries ascend strictly in the byte order of their points.
TableSorted(mG) ==
    \A k \in 1..(Len(mG) - 1) :
        memcmp(mG[k].point, mG[k + 1].point, EPIR_POINT_SIZE) < 0

\* The point m*G is the point of no entry of the table.
AbsentFromTable(mG, m) ==
    \A k \in 1..Len(mG) : mG[k].point # ge_tobytes(ge_scalarmult_base(m))

\* C1: round trip.  A cipher produced by either encryptor for a message
\* m < mmax, decrypted with the private key and the table for mmax, gives m.
C1_RoundTrip ==
    \A t \in Threads :
        (/\ Done(t, "decryptCipher")
         /\ th[t].cipher.message < ctx.mmax
         /\ TableSorted(ctx.mG)
         /\ TableExact(ctx.mG, ctx.mmax))
        => th[t].out = ReturnedInt(th[t].cipher.message)

C1_Witness ==
    \E t \in Threads :
        /\ Done(t, "decryptCipher")
        /\ th[t].cipher.by = "PrivateKey"
        /\ th[t].cipher.message = ctx.mmax - 1
        /\ th[t].cipher.message > 1
        /\ TableSorted(ctx.mG) /\ TableExact(ctx.mG, ctx.mmax)
        /\ th[t].out.code = th[t].cipher.message

\* C4: out-of-range decryption.  Decrypting a cipher of a message m >= mmax
\* whose point is absent from the table ends in an error; decryptCipher
\* returns no integer to the caller then, neither a message nor a sentinel.
C4_OutOfRangeThrows ==
    \A t \in Threads :
        (/\ Done(t, "decryptCipher")
         /\ th[t].cipher.message >= ctx.mmax
         /\ AbsentFromTable(ctx.mG, th[t].cipher.message))
        => th[t].out.kind = "throw"

\* The state C4 is about: such a cipher was decrypted and the call returned
\* a negative integer to the caller.
C4_Witness ==
    \E t \in Threads :
        /\ Done(t, "decryptCipher")
        /\ th[t].cipher.message >= ctx.mmax
        /\ AbsentFromTable(ctx.mG, th[t].cipher.message)
        /\ th[t].out.kind = "return"
        /\ th[t].out.code < 0

ValidIdx == selector.by # "none" /\ selector.idx < Encryptor_elementsCount(selector.indexCounts)

\* C2: selector sizing.  For a valid idx createSelector returns exactly
\* ciphersCount(indexCounts) * cipherByteSize bytes.
C2_SelectorSizing ==
    ValidIdx =>
        /\ selector.out.kind = "return"
        /\ Len(selector.out.value) =
               Encryptor_ciphersCount(selector.indexCounts) * EPIR_CIPHER_SIZE

\* The d-th digit (1-based dimension) of idx, most significant first.
Digit(indexCounts, idx, d) ==
    (idx \div epir_selector_elements_count(SubSeq(indexCounts, d + 1, Len(indexCounts))))
        % indexCounts[d]

\* The offset of dimension d's segment in the selector, in ciphers.
SegmentStart(indexCounts, d) == epir_selector_ciphers_count(SubSeq(indexCounts, 1, d - 1))

\* The k-th cipher (0-based) of the returned selector decrypts to v.
SelectorCipherIs(k, v) ==
    /\ Len(selector.out.value) >= (k + 1) * EPIR_CIPHER_SIZE
    /\ epir_ecelgamal_decrypt(
           privkey,
           SubSeq(selector.out.value, k * EPIR_CIPHER_SIZE + 1, (k + 1) * EPIR_CIPHER_SIZE),
           DecryptionContext_generate(MaxMmax).mG, MaxMmax)
       = v

\* C3: one-hot selector.  In every dimension's segment the cipher at the
\* digit of idx decrypts to 1 and every other cipher decrypts to 0.
C3_SelectorOneHot ==
    ValidIdx =>
        /\ selector.out.kind = "return"
        /\ \A d \in 1..Len(selector.indexCounts) :
              \A c \in 0..(selector.indexCounts[d] - 1) :
                  SelectorCipherIs(
                      SegmentStart(selector.indexCounts, d) + c,
                      IF c = Digit(selector.indexCounts, selector.idx, d) THEN 1 ELSE 0)

\* C5: an idx >= elementsCount(indexCounts) is rejected with an error and
\* no selector bytes are returned.
C5_InvalidIdxRejected ==
    (selector.by # "none" /\ selector.idx >= Encryptor_elementsCount(selector.indexCounts))
    => (selector.out.kind = "throw" /\ selector.out.value = << >>)

\* Records of the caller's reply that fail to decrypt in the first phase.
FailingRecords ==
    {k \in 0..((Len(reply) \div EPIR_CIPHER_SIZE) - 1) :
        epir_ecelgamal_decrypt(
            privkey, SubSeq(reply, k * EPIR_CIPHER_SIZE + 1, (k + 1) * EPIR_CIPHER_SIZE),
            ctx.mG, ctx.mmax) < 0}

\* The number of bytes a successful decode of n records returns.
RECURSIVE ExpectedCount(_, _, _)
ExpectedCount(n, dimension, packing) ==
    IF dimension = 1 THEN n * packing
    ELSE ExpectedCount((n * packing) \div EPIR_CIPHER_SIZE, dimension - 1, packing)

\* C6: decryptReply is all-or-nothing.  If a record fails to decrypt the
\* call throws and returns no bytes; a successful call returns exactly
\* decryptedCount bytes, the prefix of the unpacked buffer.
C6_ReplyAllOrNothing ==
    \A t \in Threads :
        Done(t, "decryptReply") =>
            LET f == th[t]
                n == ExpectedCount(Len(reply) \div EPIR_CIPHER_SIZE, f.dimension, f.packing)
            IN  /\ f.out.kind \in {"return", "throw"}
                /\ (FailingRecords # {} \/ ~f.success)
                       => (f.out.kind = "throw" /\ f.out.value = << >>)
                /\ f.out.kind = "return"
                       => /\ f.success
                          /\ Len(f.out.value) = n
                          /\ f.out.value = SubSeq(f.buf, 1, n)
                          /\ f.dimension = 1 =>
                                \A k \in 0..((Len(reply) \div EPIR_CIPHER_SIZE) - 1) :
                                    f.out.value[k * f.packing + 1] =
                                        epir_ecelgamal_decrypt(
                                            privkey,
                                            SubSeq(reply, k * EPIR_CIPHER_SIZE + 1,
                                                   (k + 1) * EPIR_CIPHER_SIZE),
                                            ctx.mG, ctx.mmax)

C6_Witness ==
    \E t1 \in Threads, t2 \in Threads :
        /\ Done(t1, "decryptReply") /\ Done(t2, "decryptReply")
        /\ th[t1].out.kind = "return" /\ th[t1].dimension = 2 /\ Len(th[t1].out.value) = 1
        /\ th[t2].out.kind = "throw"

\* Whole records the artifact holds.
RecordsIn(file) == Len(file) \div EPIR_MG_SIZE

\* C7: loading for mmax succeeds exactly when mmax whole records were read;
\* otherwise construction fails and leaves no table.
C7_LoadAllOrNothing ==
    ctx.by = "load" =>
        /\ ctx.status \in {"ready", "failed"}
        /\ ctx.status = "ready" <=> Min(RecordsIn(artifact), ctx.mmax) = ctx.mmax
        /\ ctx.status = "ready" =>
              /\ Len(ctx.mG) = ctx.mmax
              /\ \A k \in 1..ctx.mmax :
                    ctx.mG[k] = mG_parse(SubSeq(artifact, (k - 1) * EPIR_MG_SIZE + 1,
                                                k * EPIR_MG_SIZE))
        /\ ctx.status = "failed" =>
              /\ ctx.mG = << >>
              /\ ctx.what = "Failed to load mG.bin."

C7_Witness ==
    /\ ctx.by = "load"
    /\ ctx.status = "failed"
    /\ RecordsIn(artifact) > 0
    /\ Len(artifact) % EPIR_MG_SIZE # 0
    /\ RecordsIn(artifact) = ctx.mmax - 1

\* C8: every constructed context, generated or loaded, has a strictly
\* ascending table holding exactly the points i*G, i in [0, mmax).
C8_TableSortedExact ==
    ctx.status = "ready" => (TableSorted(ctx.mG) /\ TableExact(ctx.mG, ctx.mmax))

\* The result of a finished call, had it run alone on the context.
AloneResult(t) ==
    IF th[t].op = "decryptCipher"
    THEN DecryptionContext_decryptCipher(ctx, privkey, th[t].cipher.bytes)
    ELSE DecryptionContext_decryptReply(ctx, privkey, reply, th[t].dimension, th[t].packing)

\* C9: no decryptCipher or decryptReply step changes the constructed
\* context, and every finished call returned what it returns run alone.
C9_TableReadOnly ==
    /\ [][ctx' = ctx]_vars
    /\ [](\A t \in Threads : th[t].pc = "done" => th[t].out = AloneResult(t))

C9_Witness ==
    \E t1 \in Threads, t2 \in Threads :
        /\ Done(t1, "decryptCipher") /\ th[t1].out.code >= 1
        /\ th[t2].pc = "reply" /\ th[t2].i > 0 /\ th[t2].success

\* C10: two decryptReply calls on the same reply with the same dimension
\* and packing give the same outcome, and no step of decryptReply changes
\* the caller's reply buffer.
C10_ReplyIdempotent ==
    /\ [][reply' = reply]_vars
    /\ [](\A t1 \in Threads, t2 \in Threads :
            (/\ Done(t1, "decryptReply") /\ Done(t2, "decryptReply")
             /\ th[t1].dimension = th[t2].dimension
             /\ th[t1].packing = th[t2].packing)
            => th[t1].out = th[t2].out)

C10_Witness ==
    \E t1 \in Threads, t2 \in Threads :
        /\ t1 # t2
        /\ Done(t1, "decryptReply") /\ Done(t2, "decryptReply")
        /\ th[t1].dimension = th[t2].dimension
        /\ th[t1].packing = th[t2].packing
        /\ th[t1].out.kind = "return"
        /\ Len(th[t1].out.value) > 1
        /\ th[t1].out = th[t2].out

====
